---- MODULE Spec2Model ----
(***************************************************************************)
(* Client-side synchronisation layer of blackjack-ng (src/src/App.tsx):    *)
(* the useWs hook (connection lifecycle, snapshot publication, outbound    *)
(* frames), the TurnTimer component (per-turn countdown), the useSounds    *)
(* hook with the places that invoke its cues, and calculateValue.          *)
(*                                                                         *)
(* Time is discrete, one step of Advance = StepMs milliseconds.  A handler *)
(* (socket event, timer callback, hook call) is one atomic action, as on   *)
(* the single-threaded event loop.  A React state update, the render it    *)
(* causes and the effects of that render are one step.                     *)
(***************************************************************************)
EXTENDS Integers, Sequences, FiniteSets, TLC

\* ------------------------------------------------------------ bounds
\* number of times the connection effect may be re-run (cleanup + effect)
MaxReruns == 2
\* number of frames the record of the transport keeps (the most recent ones)
MaxWire == 1
\* number of cards of a hand given to calculateValue
MaxHand == 4
\* rounds the result effect counts
MaxGames == 2

\* ------------------------------------------------------------ program constants
\* window.setTimeout(..., 2000) in ws.onclose
ReconnectDelayMs == 2000
\* window.setInterval(..., 1000) in TurnTimer
TickMs == 1000
\* <TurnTimer duration={20}>
Duration == 20
\* granularity of the model's clock: the interval period
StepMs == TickMs

\* every chain of (socket -> close -> timer -> socket) holds one live socket or
\* one pending timer; a re-run of the effect can start one more chain
MaxChains == MaxReruns + 1
SockIds == 1..(MaxChains + 1)
TimerIds == 1..MaxChains
IntervalIds == 1..2
\* null of a ref
NoRef == 0
\* the delay of the timeout that hides the result overlay
ResultHideMs == 3000

\* ------------------------------------------------------------ data model
Null == [tag |-> "null"]
Undefined == [tag |-> "undefined"]
NoArg == [tag |-> "none"]

\* type Rank
Ranks == {"A", "2", "3", "4", "5", "6", "7", "8", "9", "10", "J", "Q", "K"}

\* type Card
CardOf(id, rank) == [id |-> id, suit |-> "S", rank |-> rank]

\* interface Player (the fields the components read)
Ann == [id |-> "p1", name |-> "Ann", cards |-> <<>>, result |-> Undefined,
        stack |-> 100, bet |-> 10]
Bob == [id |-> "p2", name |-> "Bob", cards |-> <<>>, result |-> Undefined,
        stack |-> 100, bet |-> 10]
\* a second player who typed the same display name
Ann2 == [id |-> "p3", name |-> "Ann", cards |-> <<>>, result |-> Undefined,
        stack |-> 100, bet |-> 10]
\* Ann after the deal, after a hit, and after the round
AnnDealt == [Ann EXCEPT !.cards = <<CardOf("c1", "A"), CardOf("c2", "7")>>]
AnnHit == [AnnDealt EXCEPT !.cards = Append(@, CardOf("c3", "K"))]
AnnWon == [AnnHit EXCEPT !.result = [str |-> "WIN"]]
BobLost == [Bob EXCEPT !.result = [str |-> "LOSE"]]
\* the dealer's hand after the deal: the second card is dealt face down
DealerDealt == <<CardOf("d1", "9"), CardOf("d2", "8")>>

SnapPhases == {"LOBBY", "PLAYER"}
\* interface GameState (the fields the hooks and components read)
GameStates ==
  { [phase |-> ph, turnIdx |-> i, players |-> ps, dealer |-> [cards |-> <<>>]] :
      ph \in SnapPhases, i \in -1..1, ps \in {<<Ann, Bob>>, <<Ann, Ann2>>} }

\* the snapshots of one round at a table of two: lobby, shuffle, Ann's turn
\* before and after a hit, the result
TableStates ==
  { [phase |-> "LOBBY", turnIdx |-> -1, players |-> <<Ann, Bob>>, dealer |-> [cards |-> <<>>]],
    [phase |-> "SHUFFLING", turnIdx |-> -1, players |-> <<Ann, Bob>>, dealer |-> [cards |-> <<>>]],
    [phase |-> "PLAYER", turnIdx |-> 0, players |-> <<AnnDealt, Bob>>,
     dealer |-> [cards |-> DealerDealt]],
    [phase |-> "PLAYER", turnIdx |-> 0, players |-> <<AnnHit, Bob>>,
     dealer |-> [cards |-> DealerDealt]],
    [phase |-> "RESULT", turnIdx |-> -1, players |-> <<AnnWon, BobLost>>,
     dealer |-> [cards |-> DealerDealt]] }

\* Inbound raw frames: text that is not JSON, and JSON texts by the value
\* they encode (an object with its type and state members, or the JSON null).
RawFrames ==
  { [wellFormed |-> FALSE, json |-> "-", type |-> "-", state |-> Undefined] }
  \cup { [wellFormed |-> TRUE, json |-> "null", type |-> "-", state |-> Undefined] }
  \cup { [wellFormed |-> TRUE, json |-> "object", type |-> "chat", state |-> Undefined] }
  \cup { [wellFormed |-> TRUE, json |-> "object", type |-> "chat", state |-> g] :
           g \in {[phase |-> "PLAYER", turnIdx |-> 0, players |-> <<Ann, Bob>>,
                   dealer |-> [cards |-> <<>>]]} }
  \cup { [wellFormed |-> TRUE, json |-> "object", type |-> "state", state |-> Undefined] }
  \cup { [wellFormed |-> TRUE, json |-> "object", type |-> "state", state |-> g] :
           g \in GameStates }

\* the frames of type "state" that carry the snapshots of a round
TableFrames ==
  { [wellFormed |-> TRUE, json |-> "object", type |-> "state", state |-> g] :
      g \in TableStates }

\* the snapshots around the end of a round: the local player won, lost,
\* pushed, or has no result
AnnLost == [AnnHit EXCEPT !.result = [str |-> "LOSE"]]
AnnPush == [AnnDealt EXCEPT !.result = [str |-> "PUSH"]]
ResultStates ==
  { [phase |-> "LOBBY", turnIdx |-> -1, players |-> <<Ann, Bob>>, dealer |-> [cards |-> <<>>]],
    [phase |-> "PLAYER", turnIdx |-> 0, players |-> <<AnnDealt, Bob>>,
     dealer |-> [cards |-> DealerDealt]] }
  \cup { [phase |-> "RESULT", turnIdx |-> -1, players |-> <<a, BobLost>>,
          dealer |-> [cards |-> DealerDealt]] : a \in {AnnWon, AnnLost, AnnPush, AnnHit} }

ResultFrames ==
  { [wellFormed |-> TRUE, json |-> "object", type |-> "state", state |-> g] :
      g \in ResultStates }

\* the frames of a round up to the local player's turn
PlayFrames == {f \in TableFrames : f.state.phase # "RESULT"}

VARIABLES
  sockets,              \* WebSocket objects: id -> FREE | CONNECTING | OPEN | CLOSING | CLOSED
  wsRef,                \* wsRef.current: a socket id or NoRef
  timers,               \* pending reconnect timeouts: handle -> ms left
  reconnectTimeoutRef,  \* reconnectTimeoutRef.current: a handle or NoRef
  connected,            \* useWs state
  reconnecting,         \* useWs state
  state,                \* useWs state: the published snapshot
  mounted,              \* the component using the hook is mounted
  reruns,               \* re-runs of the connection effect so far
  wire,                 \* the frames written to the transport last, in order
  last,                 \* the handler that ran last and what it was given
  lastCarried,          \* what the last inbound frame of type "state" carried
  joined,               \* App state: the table (and the TurnTimer) is rendered
  timeLeft,             \* TurnTimer state
  intervalRef,          \* TurnTimer intervalRef.current
  intervals,            \* live setInterval handles
  due,                  \* live intervals whose period has elapsed
  ticksSinceReset,      \* interval callbacks run since the effect last ran
  tickMuted,            \* muted as the closure of the interval callback holds it
  tickCues,             \* calls of sounds.tick() since the effect last ran
  muted,                \* useSounds state of App
  keyMuted,             \* muted as the closure of the keypress listener holds it
  pendingAudio,         \* kinds of delayed audio callbacks not yet run
  hand,                 \* a hand being dealt and the value calculateValue gives it
  prevPhaseRef,         \* App prevPhaseRef.current: a phase, "-" for null
  showResult,           \* App state
  myResult,             \* App state
  stats,                \* App state (the counters of rounds and outcomes)
  hideTimers            \* pending timeouts that hide the result overlay: ms left

connVars == <<sockets, wsRef, timers, reconnectTimeoutRef, connected, reconnecting>>
clockVars == <<joined, timeLeft, intervalRef, intervals, due, ticksSinceReset, tickMuted,
               tickCues>>
soundVars == <<muted, keyMuted, pendingAudio>>
resultVars == <<prevPhaseRef, showResult, myResult, stats, hideTimers>>
vars == <<sockets, wsRef, timers, reconnectTimeoutRef, connected, reconnecting,
          state, mounted, reruns, wire, last, lastCarried,
          joined, timeLeft, intervalRef, intervals, due, ticksSinceReset, tickMuted,
          tickCues, muted, keyMuted, pendingAudio, hand,
          prevPhaseRef, showResult, myResult, stats, hideTimers>>

\* ------------------------------------------------------------ React
\* a state setter of a hook: React drops updates of an unmounted component
SetState(old, new) == IF mounted THEN new ELSE old

\* the record of a handler run: its argument, the audio cues it invoked, the
\* calls it made to the audio backend, whether an error left it, how many
\* frames it wrote to the transport, and the countdown as it stood when the
\* handler began
Event(op, arg) ==
  [op |-> op, arg |-> arg, cues |-> {}, backend |-> 0, threw |-> FALSE, wrote |-> 0,
   was |-> timeLeft]

\* ------------------------------------------------------------ useWs: helpers
\* WebSocket.readyState
ReadyState(socks, s) == socks[s]

\* closed sockets nothing refers to any more are garbage; their slot is reused
Release(socks, ref) ==
  [s \in SockIds |-> IF socks[s] = "CLOSED" /\ s # ref THEN "FREE" ELSE socks[s]]

\* new WebSocket(url): a socket object in state CONNECTING
NewSocket(socks) ==
  CHOOSE s \in SockIds :
    /\ socks[s] = "FREE"
    /\ \A t \in SockIds : socks[t] = "FREE" => s <= t

\* window.setTimeout: a handle that no pending timeout has
NewTimer(ts) ==
  CHOOSE h \in TimerIds :
    /\ h \notin DOMAIN ts
    /\ \A k \in TimerIds : k \notin DOMAIN ts => h <= k

\* clearTimeout(h): no effect when h is not pending
ClearTimeout(ts, h) == [k \in (DOMAIN ts) \ {h} |-> ts[k]]

\* onclose that forgets to schedule the retry
ScheduleNothing(ts) == ts

\* onclose that retries one step of the clock later than it should
ScheduleReconnectLate(ts) ==
  [k \in (DOMAIN ts) \cup {NewTimer(ts)} |->
     IF k \in DOMAIN ts THEN ts[k] ELSE ReconnectDelayMs + StepMs]

\* window.setTimeout(() => connect(), 2000) of ws.onclose
ScheduleReconnect(ts) ==
  [k \in (DOMAIN ts) \cup {NewTimer(ts)} |->
     IF k \in DOMAIN ts THEN ts[k] ELSE ReconnectDelayMs]

\* ws.close(): starts the closing handshake of a socket that is not yet closing
CloseSocket(socks, s) ==
  IF s # NoRef /\ socks[s] \in {"CONNECTING", "OPEN"}
    THEN [socks EXCEPT ![s] = "CLOSING"]
    ELSE socks

\* connect() without its early return
NeverOpen(socks) == FALSE

\* the early return of connect(): wsRef.current?.readyState === WebSocket.OPEN
AlreadyOpen(socks) == wsRef # NoRef /\ ReadyState(socks, wsRef) = "OPEN"

\* connect(), run on the sockets as they are when it is called
Connect(socks) ==
  IF AlreadyOpen(socks)
    THEN /\ sockets' = socks
         /\ UNCHANGED <<wsRef, reconnecting>>
    ELSE LET ws == NewSocket(socks) IN
         /\ \E s \in SockIds : socks[s] = "FREE"
         /\ reconnecting' = SetState(reconnecting, TRUE)
         /\ wsRef' = ws
         /\ sockets' = Release([socks EXCEPT ![ws] = "CONNECTING"], ws)

\* the cleanup of the connection effect
CleanupTimers == 
  IF reconnectTimeoutRef # NoRef THEN ClearTimeout(timers, reconnectTimeoutRef) ELSE timers

\* ------------------------------------------------------------ useWs: events
\* ws.onopen
\* an onopen that joins the room again by itself
OnOpenRejoins(s) ==
  LET frame == [sock |-> s, readyState |-> "OPEN", text |-> [type |-> "join"]] IN
  /\ sockets[s] = "CONNECTING"
  /\ sockets' = [sockets EXCEPT ![s] = "OPEN"]
  /\ connected' = SetState(connected, TRUE)
  /\ reconnecting' = SetState(reconnecting, FALSE)
  /\ IF reconnectTimeoutRef # NoRef
       THEN /\ timers' = ClearTimeout(timers, reconnectTimeoutRef)
            /\ reconnectTimeoutRef' = NoRef
       ELSE UNCHANGED <<timers, reconnectTimeoutRef>>
  /\ wire' = IF Len(wire) < MaxWire THEN Append(wire, frame) ELSE Append(Tail(wire), frame)
  /\ last' = [Event("open", NoArg) EXCEPT !.wrote = 1]
  /\ UNCHANGED <<wsRef, state, mounted, reruns, lastCarried, clockVars,
                 soundVars, hand, resultVars>>

OnOpen(s) ==
  /\ sockets[s] = "CONNECTING"
  /\ sockets' = [sockets EXCEPT ![s] = "OPEN"]
  /\ connected' = SetState(connected, TRUE)
  /\ reconnecting' = SetState(reconnecting, FALSE)
  /\ IF reconnectTimeoutRef # NoRef
       THEN /\ timers' = ClearTimeout(timers, reconnectTimeoutRef)
            /\ reconnectTimeoutRef' = NoRef
       ELSE UNCHANGED <<timers, reconnectTimeoutRef>>
  /\ last' = Event("open", NoArg)
  /\ UNCHANGED <<wsRef, state, mounted, reruns, wire, lastCarried, clockVars,
                 soundVars, hand, resultVars>>

\* ws.onerror: setReconnecting(true)
OnError(r) == SetState(r, TRUE)

\* The connection of socket s ends (refused, dropped, or the closing handshake
\* is done): readyState becomes CLOSED.  When the connection failed the
\* transport fires error and then close on the socket, in one task: ws.onerror
\* runs first, then ws.onclose.
OnClose(s, failed) ==
  /\ sockets[s] \in {"CONNECTING", "OPEN", "CLOSING"}
  /\ sockets' = Release([sockets EXCEPT ![s] = "CLOSED"], wsRef)
  /\ connected' = SetState(connected, FALSE)
  /\ reconnecting' = SetState(IF failed THEN OnError(reconnecting) ELSE reconnecting, TRUE)
  /\ \E h \in TimerIds : h \notin DOMAIN timers
  /\ timers' = ScheduleReconnect(timers)
  /\ reconnectTimeoutRef' = NewTimer(timers)
  /\ last' = Event(IF failed THEN "error+close" ELSE "close", NoArg)
  /\ UNCHANGED <<wsRef, state, mounted, reruns, wire, lastCarried, clockVars,
                 soundVars, hand, resultVars>>

\* The server starts the closing handshake of socket s: readyState is CLOSING
\* until the close event; no handler runs.
ClosingHandshake(s) ==
  /\ sockets[s] = "OPEN"
  /\ sockets' = [sockets EXCEPT ![s] = "CLOSING"]
  /\ last' = Event("closing", NoArg)
  /\ UNCHANGED <<wsRef, timers, reconnectTimeoutRef, connected, reconnecting,
                 state, mounted, reruns, wire, lastCarried, clockVars, soundVars, hand, resultVars>>

\* the callback of the reconnect timeout: connect().  Timeouts that expire
\* within the same step of the clock run in either order.
ReconnectTimerFire(h) ==
  /\ h \in DOMAIN timers
  /\ timers[h] = 0
  /\ timers' = ClearTimeout(timers, h)
  /\ Connect(sockets)
  /\ last' = Event("retry", NoArg)
  /\ UNCHANGED <<reconnectTimeoutRef, connected, state, mounted, reruns, wire,
                 lastCarried, clockVars, soundVars, hand, resultVars>>

\* The dependency of the connection effect changed: React runs the cleanup of
\* the previous run, then the effect again.
EffectRerun ==
  /\ mounted
  /\ reruns < MaxReruns
  /\ reruns' = reruns + 1
  /\ timers' = CleanupTimers
  /\ Connect(CloseSocket(sockets, wsRef))
  /\ last' = Event("effect", NoArg)
  /\ UNCHANGED <<reconnectTimeoutRef, connected, state, mounted, wire,
                 lastCarried, clockVars, soundVars, hand, resultVars>>

\* The component unmounts: the cleanup of the connection effect (and of the
\* TurnTimer effect, when the table is rendered) runs and nothing runs again.
Unmount ==
  /\ mounted
  /\ mounted' = FALSE
  /\ timers' = CleanupTimers
  /\ sockets' = CloseSocket(sockets, wsRef)
  /\ joined' = FALSE
  /\ timeLeft' = Duration
  /\ intervalRef' = NoRef
  /\ intervals' = intervals \ {intervalRef}
  /\ due' = due \ {intervalRef}
  /\ ticksSinceReset' = 0
  /\ tickMuted' = FALSE
  /\ tickCues' = 0
  /\ last' = Event("unmount", NoArg)
  /\ UNCHANGED <<wsRef, reconnectTimeoutRef, connected, reconnecting, state, reruns,
                 wire, lastCarried, soundVars, hand, resultVars>>

\* ------------------------------------------------------------ useWs: inbound frames
\* JSON.parse(e.data): the decoded value, or a SyntaxError
JSONparse(raw) ==
  IF raw.wellFormed
    THEN [ok |-> TRUE, data |-> [json |-> raw.json, type |-> raw.type, state |-> raw.state]]
    ELSE [ok |-> FALSE, data |-> [json |-> "-", type |-> "-", state |-> Undefined]]

\* onmessage without the try block: the SyntaxError of JSON.parse leaves the handler
OnMessageResultNoCatch(raw, cur) ==
  LET parsed == JSONparse(raw) IN
  IF ~parsed.ok \/ parsed.data.json = "null"
    THEN [state |-> cur, set |-> FALSE, threw |-> TRUE, logged |-> FALSE]
    ELSE IF parsed.data.type = "state"
      THEN [state |-> parsed.data.state, set |-> TRUE, threw |-> FALSE, logged |-> FALSE]
      ELSE [state |-> cur, set |-> FALSE, threw |-> FALSE, logged |-> FALSE]

\* onmessage that publishes the state member of every frame that has one
OnMessageResultAnyType(raw, cur) ==
  LET parsed == JSONparse(raw) IN
  IF ~parsed.ok \/ parsed.data.json = "null"
    THEN [state |-> cur, set |-> FALSE, threw |-> FALSE, logged |-> TRUE]
    ELSE IF parsed.data.state # Undefined
      THEN [state |-> parsed.data.state, set |-> TRUE, threw |-> FALSE, logged |-> FALSE]
      ELSE [state |-> cur, set |-> FALSE, threw |-> FALSE, logged |-> FALSE]

\* onmessage that patches the held snapshot instead of replacing it: the
\* player list of the first snapshot is kept
OnMessageResultMerge(raw, cur) ==
  LET parsed == JSONparse(raw) IN
  IF ~parsed.ok \/ parsed.data.json = "null"
    THEN [state |-> cur, set |-> FALSE, threw |-> FALSE, logged |-> TRUE]
    ELSE IF parsed.data.type = "state"
      THEN [state |-> IF cur \in GameStates /\ parsed.data.state \in GameStates
                        THEN [parsed.data.state EXCEPT !.players = cur.players]
                        ELSE parsed.data.state,
            set |-> TRUE, threw |-> FALSE, logged |-> FALSE]
      ELSE [state |-> cur, set |-> FALSE, threw |-> FALSE, logged |-> FALSE]

\* ws.onmessage on raw text, with cur the published snapshot: the snapshot it
\* publishes, whether it published one, and whether an error left the handler.
\* Reading data.type of the JSON null is a TypeError inside the try block.
OnMessageResult(raw, cur) ==
  LET parsed == JSONparse(raw) IN
  IF ~parsed.ok \/ parsed.data.json = "null"
    THEN [state |-> cur, set |-> FALSE, threw |-> FALSE, logged |-> TRUE]
    ELSE IF parsed.data.type = "state"
      THEN [state |-> parsed.data.state, set |-> TRUE, threw |-> FALSE, logged |-> FALSE]
      ELSE [state |-> cur, set |-> FALSE, threw |-> FALSE, logged |-> FALSE]

\* ------------------------------------------------------------ calculateValue
\* parseInt(c.rank) of a number card
ParseInt(rank) ==
  CASE rank = "2" -> 2 [] rank = "3" -> 3 [] rank = "4" -> 4 [] rank = "5" -> 5
    [] rank = "6" -> 6 [] rank = "7" -> 7 [] rank = "8" -> 8 [] rank = "9" -> 9
    [] rank = "10" -> 10

\* the for loop of calculateValue from card i on, with the sum and the count
\* of aces so far
RECURSIVE SumCards(_, _, _, _)
RECURSIVE SumCardsGreedy(_, _, _, _)
\* a loop that decides for each ace, when it meets it, whether it counts 11
SumCardsGreedy(cards, i, sum, aces) ==
  IF i > Len(cards) THEN [sum |-> sum, aces |-> 0]
  ELSE IF cards[i].rank = "A"
    THEN SumCardsGreedy(cards, i + 1, IF sum + 11 <= 21 THEN sum + 11 ELSE sum + 1, aces)
  ELSE IF cards[i].rank \in {"J", "Q", "K"} THEN SumCardsGreedy(cards, i + 1, sum + 10, aces)
  ELSE SumCardsGreedy(cards, i + 1, sum + ParseInt(cards[i].rank), aces)

SumCards(cards, i, sum, aces) ==
  IF i > Len(cards) THEN [sum |-> sum, aces |-> aces]
  ELSE IF cards[i].rank = "A" THEN SumCards(cards, i + 1, sum + 11, aces + 1)
  ELSE IF cards[i].rank \in {"J", "Q", "K"} THEN SumCards(cards, i + 1, sum + 10, aces)
  ELSE SumCards(cards, i + 1, sum + ParseInt(cards[i].rank), aces)

RECURSIVE Downgrade(_, _)
\* a downgrade that stops after one ace
DowngradeOnce(sum, aces) ==
  IF sum > 21 /\ aces > 0 THEN sum - 10 ELSE sum

\* while (sum > 21 && aces > 0) { sum -= 10; aces--; }
Downgrade(sum, aces) ==
  IF sum > 21 /\ aces > 0 THEN Downgrade(sum - 10, aces - 1) ELSE sum

\* calculateValue(cards)
calculateValue(cards) ==
  LET counted == SumCards(cards, 1, 0, 0) IN Downgrade(counted.sum, counted.aces)

\* the ids of the cards of the hand
HandIds == <<"h1", "h2", "h3", "h4", "h5", "h6">>

\* A card of rank r is added to the hand and the hand is evaluated, as
\* PlayerSpot does in every render: handValue = calculateValue(player.cards)
DealCard(r) ==
  LET cards == Append(hand.cards, CardOf(HandIds[Len(hand.cards) + 1], r)) IN
  /\ Len(hand.cards) < MaxHand
  /\ hand' = [cards |-> cards, value |-> calculateValue(cards)]
  /\ last' = Event("deal", [rank |-> r])
  /\ UNCHANGED <<connVars, state, mounted, reruns, wire, lastCarried, clockVars, soundVars,
                 resultVars>>

\* ------------------------------------------------------------ TurnTimer
\* the local player's display name (App state `name`)
LocalName == "Ann"
\* currentPlayer = null
NoPlayer == ""

\* state?.phase
OptPhase(st) == IF st \in {Null, Undefined} THEN "-" ELSE st.phase

\* prop isActive: state?.phase === "PLAYER"
IsActive(st) == OptPhase(st) = "PLAYER"

\* prop currentPlayer: the name of state.players[state.turnIdx], or null
\* (indices of the source are 0-based)
CurrentPlayer(st) ==
  IF st \in {Null, Undefined} THEN NoPlayer
  ELSE IF st.turnIdx >= 0 /\ st.turnIdx + 1 \in DOMAIN st.players
    THEN st.players[st.turnIdx + 1].name
    ELSE NoPlayer

\* the TurnTimer is rendered in the table branch only
TimerMounted == mounted /\ joined

\* an effect that depends on the snapshot itself
DepsChangedWithSnapshot(old, new) == old # new

\* the dependency array [isActive, currentPlayer, duration] differs
DepsChanged(old, new) ==
  \/ IsActive(old) # IsActive(new)
  \/ CurrentPlayer(old) # CurrentPlayer(new)

\* window.setInterval: a handle no live interval has
NewInterval(live) ==
  CHOOSE h \in IntervalIds :
    /\ h \notin live
    /\ \A k \in IntervalIds : k \notin live => h <= k

\* an effect that forgets clearInterval
ClearNothing(live) == live

\* if (intervalRef.current) clearInterval(intervalRef.current)
ClearIntervalRef(live) == live \ {intervalRef}

\* an effect that starts the clock in phase PLAYER whoever's turn it is
StartsWithoutPlayer(st) == IsActive(st)

\* the condition under which the effect registers an interval
StartsInterval(st) == IsActive(st) /\ CurrentPlayer(st) # NoPlayer

ResetValue == Duration

\* The effect of the TurnTimer for the snapshot st (the cleanup of the previous
\* run first): clear the interval, reset timeLeft, register a new interval when
\* the clock is to run.  The callback of the interval closes over the sounds
\* prop of the render in which the effect runs.
TimerEffect(st) ==
  LET cleared == ClearIntervalRef(intervals) IN
  /\ timeLeft' = ResetValue
  /\ ticksSinceReset' = 0
  /\ tickCues' = 0
  /\ IF StartsInterval(st)
       THEN /\ \E h \in IntervalIds : h \notin cleared
            /\ intervalRef' = NewInterval(cleared)
            /\ intervals' = cleared \cup {NewInterval(cleared)}
            /\ due' = due \cap cleared
            /\ tickMuted' = muted
       ELSE /\ intervalRef' = NoRef
            /\ intervals' = cleared
            /\ due' = due \cap cleared
            /\ tickMuted' = FALSE

\* the render that follows the publication of snapshot new
RenderTimer(old, new) ==
  IF TimerMounted /\ DepsChanged(old, new)
    THEN TimerEffect(new) /\ UNCHANGED joined
    ELSE UNCHANGED clockVars

\* an updater that counts two units per period
NewTimeSkipsOne(t) == t - 2

\* newTime of the updater passed to setTimeLeft
NewTime(t) == t - 1

\* a low-time test that includes 0
LowTimeOrZero(newTime) == newTime <= 5

\* if (newTime <= 5 && newTime > 0) sounds.tick()
LowTime(newTime) == newTime <= 5 /\ newTime > 0

\* ------------------------------------------------------------ useSounds
\* the cue operations of the sounds map
CueNames == {"cardDeal", "chipBet", "win", "lose", "blackjack", "tick", "shuffle"}

\* one invocation of a cue operation: the operation, the place that invoked
\* it, the card or player it is about, and muted as the useSounds instance of
\* the invoking closure holds it
Cue(op, site, key, m) == [op |-> op, site |-> site, key |-> key, muted |-> m]

\* playCardSlide, playChipStack and playShuffle create their AudioContext in
\* the call itself (after the muted check)
Immediate(op) == op \in {"cardDeal", "chipBet", "shuffle"}

\* The delayed callbacks a cue operation schedules with setTimeout: playBeep
\* (lose, tick, and every note of the melodies win and blackjack) schedules a
\* beep; playShuffle schedules its slides once its AudioContext exists.
Delayed(op, ok) ==
  IF op \in {"win", "lose", "blackjack", "tick"} THEN {"beep"}
  ELSE IF op = "shuffle" /\ ok THEN {"slide"}
  ELSE {}

\* a cue operation: `if (muted) return` comes first
PlayCue(c, ok) ==
  IF c.muted
    THEN [backend |-> 0, scheduled |-> {}]
    ELSE [backend |-> IF Immediate(c.op) THEN 1 ELSE 0, scheduled |-> Delayed(c.op, ok)]

\* calls to the audio backend made while the cues cs are invoked
BackendCalls(cs) == Cardinality({c \in cs : PlayCue(c, TRUE).backend > 0})

\* The handler invokes the cues cs: the AudioContext constructor works or
\* throws (the try block of the cue catches it).
Play(cs) ==
  \E ok \in BOOLEAN :
    pendingAudio' = pendingAudio \cup UNION {PlayCue(c, ok).scheduled : c \in cs}

\* the record of a handler that invoked the cues cs
Heard(ev, cs) == [ev EXCEPT !.cues = cs, !.backend = BackendCalls(cs)]

\* CardComponent calls useSounds() itself: the muted of that instance is its
\* initial value, and nothing sets it
CardMuted == FALSE

\* showDealerSecondCard
ShowDealerSecondCard(st) == OptPhase(st) \in {"DEALER", "RESULT"}

\* the CardComponents of the PlayerSpots, by the key of the spot and their own
PlayerCards(st) ==
  UNION { { <<st.players[i].id, st.players[i].cards[j].id>> :
              j \in DOMAIN st.players[i].cards } : i \in DOMAIN st.players }

\* the CardComponents of the dealer that are not hidden (idx === 1 is the
\* second card)
DealerCards(st) ==
  { <<"dealer", st.dealer.cards[j].id>> :
      j \in {k \in DOMAIN st.dealer.cards : ~(k = 2 /\ ~ShowDealerSecondCard(st))} }

\* the CardComponents rendered face up when the snapshot is st
VisibleCards(st, table) ==
  IF ~table \/ st \in {Null, Undefined} THEN {}
  ELSE PlayerCards(st) \cup DealerCards(st)

\* The effect of CardComponent: a component that is face up and has not
\* played (it is new, or it was hidden until now) plays the card-dealt cue.
CardCues(old, new, tableOld, tableNew) ==
  { Cue("cardDeal", "card", k, CardMuted) :
      k \in VisibleCards(new, tableNew) \ VisibleCards(old, tableOld) }

\* prop showWin of PlayerSpot
ShowWin(st) == OptPhase(st) = "RESULT"

\* the keys of the PlayerSpots rendered
Spots(st, table) ==
  IF ~table \/ st \in {Null, Undefined} THEN {}
  ELSE {st.players[i].id : i \in DOMAIN st.players}

\* the cue of the effect of PlayerSpot for player p, "" when it plays none
ResultCue(p, showWin) ==
  IF showWin /\ p.result \in {[str |-> "WIN"], [str |-> "BLACKJACK"]}
    THEN IF p.result = [str |-> "BLACKJACK"] THEN "blackjack" ELSE "win"
  ELSE IF showWin /\ p.result = [str |-> "LOSE"] THEN "lose"
  ELSE ""

\* The effect of PlayerSpot (dependency [showWin]) runs for a new spot and
\* when showWin changes; it uses the sounds prop of the current render.
ResultCues(old, new, tableOld, tableNew) ==
  IF ~tableNew \/ new \in {Null, Undefined} THEN {}
  ELSE { Cue(ResultCue(new.players[i], ShowWin(new)), "result", new.players[i].id, muted) :
           i \in { k \in DOMAIN new.players :
                     /\ \/ new.players[k].id \notin Spots(old, tableOld)
                        \/ ShowWin(old) # ShowWin(new)
                     /\ ResultCue(new.players[k], ShowWin(new)) # "" } }

\* ShuffleAnimation is rendered while the phase is SHUFFLING, in the lobby
\* view too; its effect runs once, when it is mounted
ShuffleCues(old, new) ==
  IF OptPhase(new) = "SHUFFLING" /\ OptPhase(old) # "SHUFFLING"
    THEN {Cue("shuffle", "shuffle", "-", muted)}
    ELSE {}

\* the cues of the effects that run in the render after the snapshot, or the
\* view, changed
RenderCues(old, new, tableOld, tableNew) ==
  CardCues(old, new, tableOld, tableNew)
    \cup ResultCues(old, new, tableOld, tableNew)
    \cup ShuffleCues(old, new)

\* isMyTurn
IsMyTurn(st) == IsActive(st) /\ CurrentPlayer(st) = LocalName

\* me: state?.players.find(p => p.name === name)
HasMe(st) ==
  /\ st \notin {Null, Undefined}
  /\ \E i \in DOMAIN st.players : st.players[i].name = LocalName

\* me of the result effect: the first player whose name is the local name
Me(st) ==
  IF HasMe(st)
    THEN st.players[CHOOSE i \in DOMAIN st.players :
                      /\ st.players[i].name = LocalName
                      /\ \A j \in 1..(i - 1) : st.players[j].name # LocalName]
    ELSE Undefined

\* me?.result is truthy
HasResult(p) == p # Undefined /\ p.result # Undefined

\* the dependency [state?.phase] of the result effect changed
PhaseChanged(old, new) == OptPhase(old) # OptPhase(new)

\* the result effect without the test of me?.result
ResultShownWithoutResult(prev, st) == OptPhase(st) = "RESULT" /\ prev # "RESULT"

\* the condition of the result effect: RESULT is entered and me has a result
ResultShown(prev, st) ==
  OptPhase(st) = "RESULT" /\ prev # "RESULT" /\ HasResult(Me(st))

\* newStats (the counters of rounds played, won, lost and pushed)
NewStats(s, result) ==
  [gamesPlayed |-> s.gamesPlayed + 1,
   wins |-> IF result \in {[str |-> "WIN"], [str |-> "BLACKJACK"]}
              THEN s.wins + 1 ELSE s.wins,
   losses |-> IF result \in {[str |-> "LOSE"], [str |-> "BUST"]}
                THEN s.losses + 1 ELSE s.losses,
   pushes |-> IF result \in {[str |-> "WIN"], [str |-> "BLACKJACK"],
                              [str |-> "LOSE"], [str |-> "BUST"]}
                THEN s.pushes ELSE s.pushes + 1]

\* The result effect of App runs with snapshot st: the overlay is shown, the
\* timeout that hides it is registered, and the counters are updated (at most
\* MaxGames rounds are counted)
ResultEffect(st) ==
  /\ IF ResultShown(prevPhaseRef, st)
       THEN /\ stats.gamesPlayed < MaxGames
            /\ myResult' = Me(st).result
            /\ showResult' = TRUE
            /\ hideTimers' = Append(hideTimers, ResultHideMs)
            /\ stats' = NewStats(stats, Me(st).result)
       ELSE UNCHANGED <<myResult, showResult, hideTimers, stats>>
  /\ prevPhaseRef' = OptPhase(st)

\* the render after the snapshot changed from old to new: the result effect
\* runs when its dependency changed
RenderResult(old, new) ==
  IF PhaseChanged(old, new) THEN ResultEffect(new) ELSE UNCHANGED resultVars

\* the callback of the timeout of the result effect: setShowResult(false)
HideResult ==
  /\ hideTimers # <<>> /\ Head(hideTimers) <= 0
  /\ showResult' = SetState(showResult, FALSE)
  /\ hideTimers' = Tail(hideTimers)
  /\ last' = Event("hide", NoArg)
  /\ UNCHANGED <<connVars, state, mounted, reruns, wire, lastCarried, clockVars,
                 soundVars, hand, prevPhaseRef, myResult, stats>>

\* the mute button: setMuted(!muted).  The render gives the handlers and the
\* props a new sounds map; effects whose dependencies did not change keep the
\* closure they have.
ToggleMute ==
  /\ mounted
  /\ muted' = ~muted
  /\ last' = Event("mute", NoArg)
  /\ UNCHANGED <<connVars, state, mounted, reruns, wire, lastCarried, clockVars,
                 keyMuted, pendingAudio, hand, resultVars>>

\* A delayed audio callback runs; more of its kind may remain.  The body of
\* the beep callback is a try block; the slide callback of playShuffle uses
\* the AudioContext outside any try block.
AudioCallback(kind, ok) ==
  /\ kind \in pendingAudio
  /\ pendingAudio' \in {pendingAudio, pendingAudio \ {kind}}
  /\ last' = [Event("audio", [kind |-> kind, ok |-> ok]) EXCEPT
                !.backend = 1,
                !.threw = (kind = "slide" /\ ~ok)]
  /\ UNCHANGED <<connVars, state, mounted, reruns, wire, lastCarried, clockVars,
                 muted, keyMuted, hand, resultVars>>

\* the interval callback of handle h
IntervalTick(h) ==
  /\ h \in due
  /\ IF TimerMounted
       THEN LET newTime == NewTime(timeLeft)
                cs == IF LowTime(newTime)
                        THEN {Cue("tick", "clock", "-", tickMuted)}
                        ELSE {}
            IN
            /\ last' = Heard(Event("interval", NoArg), cs)
            /\ Play(cs)
            /\ ticksSinceReset' = ticksSinceReset + 1
            /\ tickCues' = tickCues + Cardinality(cs)
            /\ IF newTime <= 0
                 THEN /\ timeLeft' = 0
                      /\ intervalRef' = NoRef
                      /\ intervals' = ClearIntervalRef(intervals)
                      /\ due' = (due \ {h}) \cap ClearIntervalRef(intervals)
                      /\ tickMuted' = FALSE
                 ELSE /\ timeLeft' = newTime
                      /\ due' = due \ {h}
                      /\ UNCHANGED <<intervalRef, intervals, tickMuted>>
       ELSE /\ last' = Event("interval", NoArg)
            /\ due' = due \ {h}
            /\ UNCHANGED <<timeLeft, intervalRef, intervals, ticksSinceReset, tickMuted,
                           tickCues, pendingAudio>>
  /\ UNCHANGED <<connVars, state, mounted, reruns, wire, lastCarried, joined,
                 muted, keyMuted, hand, resultVars>>

\* the frame is JSON text of an object whose type member is "state"
IsStateFrame(raw) == raw.wellFormed /\ raw.json = "object" /\ raw.type = "state"

\* ws.onmessage of socket s: message events are dispatched to open sockets.
\* A published snapshot is rendered: the effect of the TurnTimer, the effects
\* of the card, result and shuffle displays, and the keypress effect of App
\* (dependency [state]), whose listener closes over the render's handlers.
OnMessage(s, raw) ==
  LET r == OnMessageResult(raw, state) IN
  /\ sockets[s] = "OPEN"
  /\ state' = SetState(state, r.state)
  /\ lastCarried' = IF IsStateFrame(raw) THEN raw.state ELSE lastCarried
  /\ RenderTimer(state, state')
  /\ keyMuted' = IF mounted /\ r.set THEN muted ELSE keyMuted
  /\ LET cs == RenderCues(state, state', joined, joined) IN
       /\ Play(cs)
       /\ last' = Heard([Event("message", raw) EXCEPT !.threw = r.threw], cs)
  /\ RenderResult(state, state')
  /\ UNCHANGED <<connVars, mounted, reruns, wire, muted, hand>>

\* ------------------------------------------------------------ outbound
\* JSON.stringify of an object: members whose value is undefined are left out
Stringify(type, roomId, payload) ==
  IF roomId = Undefined
    THEN IF payload = Undefined
           THEN [type |-> type]
           ELSE [type |-> type, payload |-> payload]
    ELSE [type |-> type, roomId |-> roomId, payload |-> payload]

\* send without the readyState check
CanWriteUnchecked == wsRef # NoRef

\* the guard of send and joinRoom: a socket is held and it is open
CanWrite == wsRef # NoRef /\ ReadyState(sockets, wsRef) = "OPEN"

\* the record of the transport after one more frame
Record(w, frame) ==
  IF Len(w) < MaxWire THEN Append(w, frame) ELSE Append(Tail(w), frame)

\* wsRef.current.send(text)
Write(text) ==
  wire' = Record(wire, [sock |-> wsRef, readyState |-> ReadyState(sockets, wsRef), text |-> text])

\* the calls of send the handlers of App make
SendCalls ==
  { [type |-> "hit", payload |-> Undefined],
    [type |-> "bet", payload |-> [value |-> 10]] }

\* send(type, payload)
Send(c) ==
  /\ mounted
  /\ IF CanWrite
       THEN Write(Stringify(c.type, Undefined, c.payload))
       ELSE UNCHANGED wire
  /\ last' = [Event("send", c) EXCEPT !.wrote = IF CanWrite THEN 1 ELSE 0]
  /\ UNCHANGED <<connVars, state, mounted, reruns, lastCarried, clockVars,
                 soundVars, hand, resultVars>>

\* the room code typed or generated (a string value)
RoomCode == [str |-> "ROOM01"]

\* joinRoom without the readyState check
JoinRoomWriteUnchecked ==
  Write(Stringify("join", RoomCode, [name |-> LocalName]))

\* joinRoom(roomId, playerName)
JoinRoomWrite ==
  IF CanWrite
    THEN Write(Stringify("join", RoomCode, [name |-> LocalName]))
    ELSE UNCHANGED wire

\* handleJoinRoom / handleCreateRoom (the buttons are disabled while
\* !connected): joinRoom(...), setJoined(true); the table, and with it the
\* TurnTimer, the PlayerSpots and the CardComponents, is rendered
HandleJoinRoom ==
  /\ mounted /\ ~joined /\ connected
  /\ JoinRoomWrite
  /\ joined' = TRUE
  /\ TimerEffect(state)
  /\ LET cs == RenderCues(state, state, FALSE, TRUE) IN
       /\ Play(cs)
       /\ last' = Heard([Event("joinRoom", NoArg) EXCEPT
                           !.wrote = IF CanWrite THEN 1 ELSE 0], cs)
  /\ UNCHANGED <<connVars, state, mounted, reruns, lastCarried, muted, keyMuted, hand, resultVars>>

\* handleLeave: send("leave"), setJoined(false); the TurnTimer unmounts and the
\* cleanup of its effect runs
HandleLeave ==
  /\ mounted /\ joined
  /\ IF CanWrite
       THEN Write(Stringify("leave", Undefined, Undefined))
       ELSE UNCHANGED wire
  /\ joined' = FALSE
  /\ timeLeft' = Duration
  /\ ticksSinceReset' = 0
  /\ intervalRef' = NoRef
  /\ intervals' = ClearIntervalRef(intervals)
  /\ due' = due \cap ClearIntervalRef(intervals)
  /\ tickMuted' = FALSE
  /\ tickCues' = 0
  /\ last' = [Event("leave", NoArg) EXCEPT !.wrote = IF CanWrite THEN 1 ELSE 0]
  /\ UNCHANGED <<connVars, state, mounted, reruns, lastCarried, soundVars, hand, resultVars>>

\* the frame of a handler that calls send(type, payload)
SendFrame(type, payload) ==
  IF CanWrite
    THEN Write(Stringify(type, Undefined, payload))
    ELSE UNCHANGED wire

\* handleHit, from the HIT button (rendered in the table view on the local
\* player's turn): sounds.cardDeal(); send("hit")
HandleHit ==
  /\ mounted /\ joined /\ IsMyTurn(state)
  /\ LET cs == {Cue("cardDeal", "hit", "-", muted)} IN
       /\ Play(cs)
       /\ last' = Heard([Event("hit", NoArg) EXCEPT !.wrote = IF CanWrite THEN 1 ELSE 0], cs)
  /\ SendFrame("hit", Undefined)
  /\ UNCHANGED <<connVars, state, mounted, reruns, lastCarried, clockVars,
                 muted, keyMuted, hand, resultVars>>

\* handleBet, from a chip button (rendered in the table view during LOBBY,
\* enabled when the local player is at the table and can afford the chip):
\* sounds.chipBet(); send("bet", {value})
HandleBet ==
  /\ mounted /\ joined /\ OptPhase(state) = "LOBBY" /\ HasMe(state)
  /\ LET cs == {Cue("chipBet", "bet", "-", muted)} IN
       /\ Play(cs)
       /\ last' = Heard([Event("bet", NoArg) EXCEPT !.wrote = IF CanWrite THEN 1 ELSE 0], cs)
  /\ SendFrame("bet", [value |-> 25])
  /\ UNCHANGED <<connVars, state, mounted, reruns, lastCarried, clockVars,
                 muted, keyMuted, hand, resultVars>>

\* The keypress listener of App on the key h.  The listener is the one the
\* keypress effect registered when the snapshot was last published: isMyTurn
\* is that of the snapshot, handleHit and its sounds are those of that render.
KeyHit ==
  /\ mounted /\ IsMyTurn(state)
  /\ LET cs == {Cue("cardDeal", "key", "-", keyMuted)} IN
       /\ Play(cs)
       /\ last' = Heard([Event("keypress", NoArg) EXCEPT
                           !.wrote = IF CanWrite THEN 1 ELSE 0], cs)
  /\ SendFrame("hit", Undefined)
  /\ UNCHANGED <<connVars, state, mounted, reruns, lastCarried, clockVars,
                 muted, keyMuted, hand, resultVars>>

\* the DOUBLE button is rendered: the local player's turn, a hand of two
\* cards, and a stack that covers the bet
DoubleOffered(st) ==
  /\ IsMyTurn(st)
  /\ Me(st) # Undefined
  /\ Len(Me(st).cards) = 2
  /\ Me(st).stack >= Me(st).bet

\* handleDouble, from the DOUBLE button: sounds.cardDeal(); send("double")
HandleDouble ==
  /\ mounted /\ joined /\ DoubleOffered(state)
  /\ LET cs == {Cue("cardDeal", "double", "-", muted)} IN
       /\ Play(cs)
       /\ last' = Heard([Event("double", NoArg) EXCEPT
                           !.wrote = IF CanWrite THEN 1 ELSE 0], cs)
  /\ SendFrame("double", Undefined)
  /\ UNCHANGED <<connVars, state, mounted, reruns, lastCarried, clockVars,
                 muted, keyMuted, hand, resultVars>>

\* The keypress listener of App on the key d: if (!isMyTurn) return;
\* handleDouble(), with the snapshot and the handlers of the render in which
\* the listener was registered
KeyDouble ==
  /\ mounted /\ IsMyTurn(state)
  /\ LET cs == {Cue("cardDeal", "key", "-", keyMuted)} IN
       /\ Play(cs)
       /\ last' = Heard([Event("keypress", [key |-> "d"]) EXCEPT
                           !.wrote = IF CanWrite THEN 1 ELSE 0], cs)
  /\ SendFrame("double", Undefined)
  /\ UNCHANGED <<connVars, state, mounted, reruns, lastCarried, clockVars,
                 muted, keyMuted, hand, resultVars>>

\* ------------------------------------------------------------ time
\* StepMs milliseconds pass: every callback that is due has run
Advance ==
  /\ due = {}
  /\ \A h \in DOMAIN timers : timers[h] > 0
  /\ \A i \in DOMAIN hideTimers : hideTimers[i] > 0
  /\ (DOMAIN timers # {} \/ intervals # {} \/ hideTimers # <<>>)
  /\ timers' = [h \in DOMAIN timers |-> timers[h] - StepMs]
  /\ hideTimers' = [i \in DOMAIN hideTimers |-> hideTimers[i] - StepMs]
  /\ due' = intervals
  /\ last' = Event("advance", NoArg)
  /\ UNCHANGED <<sockets, wsRef, reconnectTimeoutRef, connected, reconnecting,
                 state, mounted, reruns, wire, lastCarried,
                 joined, timeLeft, intervalRef, intervals, ticksSinceReset, tickMuted,
                 tickCues, soundVars, hand, prevPhaseRef, showResult, myResult, stats>>

\* ------------------------------------------------------------ specification
\* after the first render: the connection effect has run connect() once
Init ==
  /\ sockets = [s \in SockIds |-> IF s = 1 THEN "CONNECTING" ELSE "FREE"]
  /\ wsRef = 1
  /\ timers = <<>>
  /\ reconnectTimeoutRef = NoRef
  /\ connected = FALSE
  /\ reconnecting = TRUE
  /\ state = Null
  /\ mounted = TRUE
  /\ reruns = 0
  /\ wire = <<>>
  /\ lastCarried = Null
  /\ joined = FALSE
  /\ timeLeft = Duration
  /\ intervalRef = NoRef
  /\ intervals = {}
  /\ due = {}
  /\ ticksSinceReset = 0
  /\ tickMuted = FALSE
  /\ tickCues = 0
  /\ muted = FALSE
  /\ keyMuted = FALSE
  /\ pendingAudio = {}
  /\ hand = [cards |-> <<>>, value |-> 0]
  /\ prevPhaseRef = "-"
  /\ showResult = FALSE
  /\ myResult = Null
  /\ stats = [gamesPlayed |-> 0, wins |-> 0, losses |-> 0, pushes |-> 0]
  /\ hideTimers = <<>>
  /\ last = Event("mount", NoArg)

\* the connection manager: socket events, the retry timer, teardown
NextConn ==
  \/ \E s \in SockIds : OnOpen(s)
  \/ \E s \in SockIds, failed \in BOOLEAN : OnClose(s, failed)
  \/ \E h \in TimerIds : ReconnectTimerFire(h)
  \/ EffectRerun
  \/ Unmount
  \/ Advance

SpecConn == Init /\ [][NextConn]_vars

\* time passes and a timeout whose delay has elapsed runs its callback
FairConn ==
  /\ SpecConn
  /\ WF_vars(Advance)
  /\ \A h \in TimerIds : WF_vars(ReconnectTimerFire(h))

\* the useWs hook of a component that stays mounted until it unmounts for
\* good: the reconnect loop, inbound frames, send
NextWs ==
  \/ \E s \in SockIds : OnOpen(s)
  \/ \E s \in SockIds, failed \in BOOLEAN : OnClose(s, failed)
  \/ \E h \in TimerIds : ReconnectTimerFire(h)
  \/ Unmount
  \/ Advance
  \/ \E s \in SockIds, raw \in RawFrames : OnMessage(s, raw)
  \/ \E c \in SendCalls : Send(c)

SpecWs == Init /\ [][NextWs]_vars

\* the turn clock, fed by the snapshots of a connection that stays up
NextClock ==
  \/ \E s \in SockIds : OnOpen(s)
  \/ \E s \in SockIds, raw \in RawFrames : OnMessage(s, raw)
  \/ HandleJoinRoom
  \/ HandleLeave
  \/ \E h \in IntervalIds : IntervalTick(h)
  \/ Advance

SpecClock == Init /\ [][NextClock]_vars

\* the audio cues of a round at the table: the snapshots of the round up to
\* the local player's turn, the mute button, the handlers and displays that
\* invoke cues, and the delayed audio callbacks
NextSound ==
  \/ \E s \in SockIds : OnOpen(s)
  \/ \E s \in SockIds, raw \in PlayFrames : OnMessage(s, raw)
  \/ HandleJoinRoom
  \/ ToggleMute
  \/ HandleHit
  \/ HandleBet
  \/ KeyHit
  \/ \E h \in IntervalIds : IntervalTick(h)
  \/ \E kind \in {"beep", "slide"}, ok \in BOOLEAN : AudioCallback(kind, ok)
  \/ Advance

SpecSound == Init /\ [][NextSound]_vars

\* joining and leaving a room over a connection that opens, is closed by the
\* server, and is retried
NextJoin ==
  \/ \E s \in SockIds : OnOpen(s)
  \/ \E s \in SockIds : ClosingHandshake(s)
  \/ \E s \in SockIds, failed \in BOOLEAN : OnClose(s, failed)
  \/ \E h \in TimerIds : ReconnectTimerFire(h)
  \/ HandleJoinRoom
  \/ HandleLeave
  \/ Advance

SpecJoin == Init /\ [][NextJoin]_vars

\* a round at the table: the snapshots of the round, joining and leaving the
\* room, the buttons and keys of the local player's turn, the turn clock and
\* the result overlay
NextTable ==
  \/ \E s \in SockIds : OnOpen(s)
  \/ \E s \in SockIds, raw \in TableFrames : OnMessage(s, raw)
  \/ HandleJoinRoom
  \/ HandleLeave
  \/ HandleHit
  \/ HandleDouble
  \/ KeyHit
  \/ KeyDouble
  \/ \E h \in IntervalIds : IntervalTick(h)
  \/ HideResult
  \/ Advance

SpecTable == Init /\ [][NextTable]_vars

\* the result overlay and the counters, fed by the snapshots around the end
\* of a round
NextResult ==
  \/ \E s \in SockIds : OnOpen(s)
  \/ \E s \in SockIds, raw \in ResultFrames : OnMessage(s, raw)
  \/ HideResult
  \/ Advance

SpecResult == Init /\ [][NextResult]_vars

\* the turn clock at the table, fed by the snapshots of a round up to the
\* local player's turn (her hand grows during it)
NextTurn ==
  \/ \E s \in SockIds : OnOpen(s)
  \/ \E s \in SockIds, raw \in PlayFrames : OnMessage(s, raw)
  \/ HandleJoinRoom
  \/ \E h \in IntervalIds : IntervalTick(h)
  \/ Advance

SpecTurn == Init /\ [][NextTurn]_vars

\* the hand evaluator, on every hand of at most MaxHand cards
NextEval == \E r \in Ranks : DealCard(r)

SpecEval == Init /\ [][NextEval]_vars

\* ------------------------------------------------------------ claims
PendingTimers == DOMAIN timers
LiveSockets == {s \in SockIds : sockets[s] \in {"CONNECTING", "OPEN"}}
NoTeardown == mounted /\ reruns = 0
CloseStep == last'.op \in {"close", "error+close"}

\* C1: in every reachable state at most one reconnect timer is pending (a
\* close event that arrives while one is pending does not schedule a second).
C1_AtMostOneReconnectTimer == Cardinality(PendingTimers) <= 1

\* C2: after the teardown of the connection effect no reconnect timer is
\* pending and no transport connection is connecting or open.
C2_NoReconnectAfterTeardown ==
  ~mounted => (PendingTimers = {} /\ LiveSockets = {})

\* C3: without teardown, a close event with no retry pending sets connected to
\* false and leaves exactly one reconnect timer, of 2000 ms; the timer's
\* callback opens a new connection attempt; and every close is eventually
\* followed by a new connection attempt.
C3_CloseSchedulesOneRetry ==
  /\ [][(CloseStep /\ NoTeardown /\ PendingTimers = {}) =>
          /\ connected' = FALSE
          /\ Cardinality(DOMAIN timers') = 1
          /\ \A h \in DOMAIN timers' : timers'[h] = 2000 /\ reconnectTimeoutRef' = h]_vars
  /\ [][(last'.op = "retry" /\ NoTeardown) =>
          /\ wsRef' # wsRef
          /\ sockets'[wsRef'] = "CONNECTING"
          /\ timers' = <<>>]_vars
  /\ [](NoTeardown /\ sockets[wsRef] = "CLOSED"
          => <>(~NoTeardown \/ sockets[wsRef] = "CONNECTING"))

\* a retry has fired after a close and a new attempt is in flight
C3_Witness ==
  /\ NoTeardown
  /\ last.op = "retry"
  /\ ~connected
  /\ sockets[wsRef] = "CONNECTING"
  /\ wsRef # 1

\* the connection the manager holds is open
ConnectionOpen == wsRef # NoRef /\ sockets[wsRef] = "OPEN"

\* the frame {type, payload} as text: the payload member only when one is given
FrameOf(c) ==
  IF c.payload = Undefined THEN [type |-> c.type]
  ELSE [type |-> c.type, payload |-> c.payload]

\* C4: send writes exactly one frame {type, payload} when the connection is
\* open, whatever the snapshot; when it is not open it writes nothing and
\* changes no state; a frame reaches the transport only in the call that sends
\* it (nothing is queued and transmitted later).
C4_SendOnlyWhileOpen ==
  /\ [][last'.op = "send" =>
          /\ ~last'.threw
          /\ UNCHANGED <<connVars, state, mounted, reruns, lastCarried, clockVars>>
          /\ IF ConnectionOpen
               THEN /\ last'.wrote = 1
                    /\ wire' = Record(wire, [sock |-> wsRef, readyState |-> "OPEN",
                                             text |-> FrameOf(last'.arg)])
               ELSE /\ last'.wrote = 0
                    /\ wire' = wire]_vars
  /\ [][wire' # wire => (last'.op = "send" /\ ConnectionOpen)]_vars

\* a frame was written during PLAYER, and a send after the connection was
\* lost wrote nothing although a frame had been written before
C4_Witness ==
  /\ last.op = "send"
  /\ last.wrote = 0
  /\ ~ConnectionOpen
  /\ wire # <<>>
  /\ OptPhase(state) = "PLAYER"

\* C5: an inbound frame whose text cannot be decoded leaves the published
\* snapshot and the connection state as they were, and no error leaves the
\* message handler.
C5_MalformedFrameDropped ==
  [][(last'.op = "message" /\ ~last'.arg.wellFormed) =>
       /\ state' = state
       /\ UNCHANGED connVars
       /\ ~last'.threw]_vars

\* a snapshot is held and the frame handled last was undecodable
C5_Witness ==
  /\ last.op = "message"
  /\ ~last.arg.wellFormed
  /\ state \in GameStates

\* C6: a decodable frame of a type other than "state" leaves the published
\* snapshot unchanged; the snapshot changes only with a frame of type "state".
C6_OnlyStateFramesPublish ==
  /\ [][(last'.op = "message" /\ last'.arg.wellFormed /\ last'.arg.type # "state")
          => state' = state]_vars
  /\ [][state' # state => (last'.op = "message" /\ IsStateFrame(last'.arg))]_vars

\* a snapshot is held and the frame handled last was a chat frame that has a
\* state member different from the snapshot
C6_Witness ==
  /\ last.op = "message"
  /\ last.arg.wellFormed
  /\ last.arg.type = "chat"
  /\ last.arg.state \in GameStates
  /\ state \in GameStates
  /\ state # last.arg.state

\* C7: the published snapshot equals, in every field, what the most recent
\* frame of type "state" carried (nothing before the first one).
C7_SnapshotIsLastStateFrame == mounted => state = lastCarried

\* a snapshot with one player list replaced a snapshot, and frames of other
\* kinds came after it
C7_Witness ==
  /\ mounted
  /\ state \in GameStates
  /\ state.players = <<Ann, Ann2>>
  /\ state.phase = "PLAYER"
  /\ last.op = "message"
  /\ ~IsStateFrame(last.arg)

\* the identity (Player.id) of the active player of a snapshot, "" when none
ActiveId(st) ==
  IF st \notin {Null, Undefined} /\ st.turnIdx >= 0 /\ st.turnIdx < Len(st.players)
    THEN st.players[st.turnIdx + 1].id
    ELSE ""

\* phase PLAYER and an active player is present
ClockShouldRun(st) == OptPhase(st) = "PLAYER" /\ ActiveId(st) # ""

\* C8: a new snapshot that changes the phase or the identity of the active
\* player, and has phase PLAYER and an active player, resets the turn clock:
\* timeLeft is the full duration again and the countdown starts anew.
C8_ResetOnPhaseOrPlayerChange ==
  [][( /\ TimerMounted /\ TimerMounted'
       /\ (OptPhase(state') # OptPhase(state) \/ ActiveId(state') # ActiveId(state))
       /\ ClockShouldRun(state') )
     => (timeLeft' = Duration /\ ticksSinceReset' = 0)]_vars

\* C9: while the turn clock is not RUNNING (the phase is not PLAYER or there
\* is no active player) no interval is live, timeLeft is the full duration,
\* and no interval callback runs.
C9_IdleClockStoppedAndReset ==
  (TimerMounted /\ ~ClockShouldRun(state)) =>
    /\ intervals = {}
    /\ due = {}
    /\ intervalRef = NoRef
    /\ timeLeft = Duration
    /\ last.op # "interval"

\* the clock had counted down when a snapshot took it out of RUNNING
C9_Witness ==
  /\ TimerMounted
  /\ ~ClockShouldRun(state)
  /\ last.op = "message"
  /\ last.was < Duration - 5
  /\ timeLeft = Duration

\* C10: 0 <= timeLeft <= duration; each interval tick takes exactly 1 off, so
\* timeLeft is duration minus the ticks since the reset and is 0 after
\* exactly duration ticks; at 0 the interval is stopped and timeLeft stays 0
\* until the phase or the active player changes (or the clock is unmounted).
C10_CountdownWithinBounds ==
  /\ [](/\ timeLeft \in 0..Duration
        /\ ticksSinceReset \in 0..Duration
        /\ TimerMounted => timeLeft = Duration - ticksSinceReset
        /\ timeLeft = 0 => (intervals = {} /\ due = {}))
  /\ [][(last'.op = "interval" /\ TimerMounted) => timeLeft' = timeLeft - 1]_vars
  /\ [][(timeLeft = 0 /\ timeLeft' # 0) =>
          \/ OptPhase(state') # OptPhase(state)
          \/ ActiveId(state') # ActiveId(state)
          \/ ~TimerMounted']_vars

\* the countdown has expired after 20 ticks
C10_Witness ==
  /\ TimerMounted
  /\ timeLeft = 0
  /\ ticksSinceReset = 20
  /\ last.op = "interval"

\* C11: while the muted flag of App is true, a handler that invokes cue
\* operations makes no call to the audio backend and schedules no audio
\* callback, wherever the cue is invoked from.
C11_MutedMeansSilent ==
  [][(muted /\ last'.cues # {}) =>
       (last'.backend = 0 /\ pendingAudio' = pendingAudio)]_vars

\* the value of a card with every ace counted as 1
FaceValue(rank) ==
  IF rank = "A" THEN 1
  ELSE IF rank \in {"J", "Q", "K"} THEN 10
  ELSE CHOOSE n \in 2..10 : <<"2", "3", "4", "5", "6", "7", "8", "9", "10">>[n - 1] = rank

RECURSIVE HardTotal(_)
HardTotal(cards) ==
  IF cards = <<>> THEN 0 ELSE FaceValue(Head(cards).rank) + HardTotal(Tail(cards))

AcesOf(cards) == Cardinality({i \in DOMAIN cards : cards[i].rank = "A"})

\* the totals of a hand: any number of its aces counted as 11
Totals(cards) == {HardTotal(cards) + 10 * k : k \in 0..AcesOf(cards)}

\* the largest total that is at most 21, or the total with every ace as 1
BestTotal(cards) ==
  IF \E t \in Totals(cards) : t <= 21
    THEN CHOOSE t \in Totals(cards) :
           t <= 21 /\ \A u \in Totals(cards) : u <= 21 => u <= t
    ELSE HardTotal(cards)

HandOf(ranks) == [i \in DOMAIN ranks |-> CardOf(HandIds[i], ranks[i])]

\* C12: the value calculateValue gives a hand is its best blackjack total:
\* the largest total that is at most 21 with each ace as 11 or 1, else the
\* total with every ace as 1; [A,K] = 21, [A,A] = 12, [A,A,9] = 21,
\* [K,Q,2] = 22 and the empty hand = 0.
C12_EvaluateIsBestTotal ==
  /\ hand.value = BestTotal(hand.cards)
  /\ (hand.cards = HandOf(<<"A", "K">>) => hand.value = 21)
  /\ (hand.cards = HandOf(<<"A", "A">>) => hand.value = 12)
  /\ (hand.cards = HandOf(<<"A", "A", "9">>) => hand.value = 21)
  /\ (hand.cards = HandOf(<<"K", "Q", "2">>) => hand.value = 22)
  /\ (hand.cards = <<>> => hand.value = 0)

\* a hand of three cards with two aces, one of them downgraded, was evaluated
C12_Witness ==
  /\ last.op = "deal"
  /\ hand.cards = HandOf(<<"A", "A", "9">>)
  /\ hand.value = 21

C14_OpenCancelsEveryRetry ==
  /\ [][last'.op = "open" =>
          /\ mounted => (connected' = TRUE /\ reconnecting' = FALSE)
          /\ DOMAIN timers' = {}]_vars
  /\ [][last'.op = "retry" => ~(wsRef # NoRef /\ sockets[wsRef] = "OPEN")]_vars

\* C15: connect() called while the held connection is open (the callback of
\* a retry timer is the caller) creates no socket and leaves the sockets, the
\* held socket, connected, reconnecting, the retry-timer handle, the snapshot
\* and the transport as they are, every time it is called.
C15_ConnectWhileOpenIsNoOp ==
  [][(last'.op = "retry" /\ ConnectionOpen) =>
       /\ sockets' = sockets
       /\ wsRef' = wsRef
       /\ connected' = connected
       /\ reconnecting' = reconnecting
       /\ reconnectTimeoutRef' = reconnectTimeoutRef
       /\ state' = state
       /\ wire' = wire]_vars

\* a retry timer fired while the held connection was open, and that
\* connection is still the only live one
C15_Witness ==
  /\ last.op = "retry"
  /\ mounted
  /\ ConnectionOpen
  /\ LiveSockets = {wsRef}
  /\ PendingTimers = {}

\* a connection attempt is in flight: a socket created and not yet open or
\* closed
AttemptInFlight == \E s \in SockIds : sockets[s] = "CONNECTING"

\* C16: while the hook is mounted, if a connection attempt is in flight or a
\* reconnect timer is pending then reconnecting = true; and only an open
\* event sets reconnecting to false.
C16_ReconnectingWhileAttemptOrTimer ==
  /\ [](mounted => ((AttemptInFlight \/ PendingTimers # {}) => reconnecting))
  /\ [][(reconnecting /\ ~reconnecting') => last'.op = "open"]_vars

\* the turn clock is RUNNING: its interval is live
ClockRunning == intervalRef # NoRef /\ intervalRef \in intervals

\* the frame is a state frame with phase PLAYER whose active player is
\* players[0], named Ann
AnnsTurnFrame(raw) ==
  /\ IsStateFrame(raw)
  /\ raw.state \in GameStates
  /\ raw.state.phase = "PLAYER"
  /\ raw.state.turnIdx = 0
  /\ raw.state.players[1].name = "Ann"

\* the scenario: a state frame with phase LOBBY publishes a snapshot with
\* phase LOBBY and leaves the clock idle; a following frame with phase PLAYER
\* and Ann active puts the clock in RUNNING with timeLeft = 20; and the clock
\* enters RUNNING with the full duration only
LobbyThenPlayerScenario ==
  /\ [][( /\ last'.op = "message" /\ TimerMounted
          /\ IsStateFrame(last'.arg) /\ OptPhase(last'.arg.state) = "LOBBY" )
        => (OptPhase(state') = "LOBBY" /\ ~ClockRunning' /\ timeLeft' = 20)]_vars
  /\ [][( /\ last'.op = "message" /\ TimerMounted
          /\ OptPhase(state) = "LOBBY" /\ AnnsTurnFrame(last'.arg) )
        => (state' = last'.arg.state /\ ClockRunning' /\ timeLeft' = 20)]_vars
  /\ [][(~ClockRunning /\ ClockRunning') => timeLeft' = 20]_vars

\* C17 as stated: the rendered turn clock is RUNNING exactly when the
\* snapshot has phase PLAYER and an active player is present; with the
\* scenario.
C17_RunningIffPlayersTurn ==
  /\ [](TimerMounted => (ClockRunning <=> ClockShouldRun(state)))
  /\ LobbyThenPlayerScenario

\* C17, amended: the rendered turn clock is RUNNING exactly when the snapshot
\* has phase PLAYER, an active player is present and the countdown has not
\* expired (at 0 the clock is EXPIRED: stopped, in the same phase and turn);
\* with the scenario.
C17_RunningIffPlayersTurnAndTimeLeft ==
  /\ [](TimerMounted => (ClockRunning <=> (ClockShouldRun(state) /\ timeLeft > 0)))
  /\ LobbyThenPlayerScenario

\* the frame of Ann's turn has put the clock in RUNNING with timeLeft = 20
C17_Witness ==
  /\ TimerMounted
  /\ last.op = "message"
  /\ AnnsTurnFrame(last.arg)
  /\ state = last.arg.state
  /\ ClockRunning
  /\ timeLeft = 20
  /\ ticksSinceReset = 0
  /\ wire # <<>>
  /\ wire[Len(wire)].text.type = "join"

\* the low-time tick events of the handler that ran last
TickEvents(ev) == {c \in ev.cues : c.op = "tick"}

\* C18: a decrement of the running clock emits one low-time tick when its
\* result is in 1..5 and none otherwise (above 5, or 0); nothing else emits
\* one; so the ticks since the clock started are those for the values from 5
\* down to timeLeft, and a countdown from 20 that has reached 0 has emitted
\* exactly five.
C18_LowTimeTickOncePerDecrement ==
  /\ [][(last'.op = "interval" /\ TimerMounted) =>
          /\ timeLeft' = timeLeft - 1
          /\ Cardinality(TickEvents(last')) = IF timeLeft' \in 1..5 THEN 1 ELSE 0
          /\ ticksSinceReset' = ticksSinceReset + 1]_vars
  /\ [][TickEvents(last') # {} => (last'.op = "interval" /\ TimerMounted)]_vars
  /\ [](TimerMounted =>
          /\ tickCues = Cardinality({t \in 1..5 : t >= timeLeft})
          /\ (timeLeft = 0 => (tickCues = 5 /\ ticksSinceReset = 20)))

\* the countdown from 20 has just made its last decrement with a tick (to 1)
C18_Witness ==
  /\ TimerMounted
  /\ last.op = "interval"
  /\ last.was = 2
  /\ timeLeft = 1
  /\ TickEvents(last) # {}
  /\ tickCues = 5
  /\ ticksSinceReset = 19

\* C19: no error leaves a handler that invokes a cue, nor a delayed audio
\* callback, whether the audio backend works or throws; and a delayed audio
\* callback leaves the snapshot, the connection and the turn clock unchanged.
C19_AudioErrorsAreCaught ==
  /\ [][(last'.op = "audio" \/ last'.cues # {}) => ~last'.threw]_vars
  /\ [][last'.op = "audio" => UNCHANGED <<connVars, state, clockVars>>]_vars

\* the frame send("join", {name}) writes
SendJoinFrame == FrameOf([type |-> "join", payload |-> [name |-> LocalName]])

\* C20 as stated: joinRoom writes exactly the frame that send("join", {name})
\* would write when the connection is open, and writes nothing and does not
\* throw when it is not.
C20_JoinRoomIsSendJoin ==
  [][last'.op = "joinRoom" =>
       /\ ~last'.threw
       /\ IF ConnectionOpen
            THEN /\ last'.wrote = 1
                 /\ wire' = Record(wire, [sock |-> wsRef, readyState |-> "OPEN",
                                          text |-> SendJoinFrame])
            ELSE /\ last'.wrote = 0
                 /\ wire' = wire]_vars

\* C20, amended: when the connection is open joinRoom writes one frame, the
\* frame of send("join", {name}) with one more member, roomId, that carries
\* the room code; when it is not open it writes nothing and does not throw.
C20_JoinRoomIsSendJoinWithRoomId ==
  [][last'.op = "joinRoom" =>
       /\ ~last'.threw
       /\ IF ConnectionOpen
            THEN /\ last'.wrote = 1
                 /\ wire' = Record(wire, [sock |-> wsRef, readyState |-> "OPEN",
                                          text |-> [type |-> SendJoinFrame.type,
                                                    roomId |-> RoomCode,
                                                    payload |-> SendJoinFrame.payload]])
            ELSE /\ last'.wrote = 0
                 /\ wire' = wire]_vars

\* a join over the open connection wrote its frame; the server then began to
\* close the connection, and a join made before the close event wrote nothing
C20_Witness ==
  /\ last.op = "joinRoom"
  /\ last.wrote = 0
  /\ connected
  /\ ~ConnectionOpen
  /\ wire # <<>>
  /\ wire[Len(wire)].text.type = "join"
  /\ wire[Len(wire)].text.roomId = RoomCode

\* C21: at most one interval of the turn clock is live, it is the one the
\* clock holds, and none is live once the clock is unmounted; so at most one
\* interval callback is due per period, and after it has run no other runs
\* before the next period: timeLeft goes down by at most 1 per period.
C21_AtMostOneInterval ==
  /\ [](/\ Cardinality(intervals) <= 1
        /\ intervals \subseteq {intervalRef}
        /\ due \subseteq intervals
        /\ (~TimerMounted => intervals = {}))
  /\ [][last'.op = "interval" => (due' = {} /\ timeLeft' >= timeLeft - 1)]_vars
  /\ [][timeLeft' < timeLeft => (last'.op = "interval" /\ timeLeft' = timeLeft - 1)]_vars

\* the countdown had expired when a snapshot with another active player
\* reset it: one interval is live, the new one
C21_Witness ==
  /\ TimerMounted
  /\ last.op = "message"
  /\ last.was = 0
  /\ timeLeft = 20
  /\ Cardinality(intervals) = 1
  /\ intervalRef \in intervals

\* C22: in every reachable state at most one transport connection is live
\* (connecting or open).
C22_AtMostOneLiveConnection == Cardinality(LiveSockets) <= 1

\* the card-dealt cues a handler played aloud, and those of card displays
DealtCues(ev) == {c \in ev.cues : c.op = "cardDeal" /\ ~c.muted}
DisplayCues(ev) == {c \in DealtCues(ev) : c.site = "card"}
\* the cards a snapshot adds to the local player's hand
NewCardsOfMe(old, new) ==
  IF Me(new) = Undefined THEN {}
  ELSE {Me(new).cards[j].id : j \in DOMAIN Me(new).cards}
         \ (IF Me(old) = Undefined THEN {}
             ELSE {Me(old).cards[j].id : j \in DOMAIN Me(old).cards})

\* C23: the card-dealt cue is played at most once per card identity.  In
\* every step: no card is announced twice by its displays; a card that was
\* face up before the step is not announced again; the displays re-created by
\* joining the room right after leaving it announce nothing (their cards were
\* face up when the room was left); the snapshot that brings the card the
\* player's own hit or double has just announced does not announce it again;
\* and a dealer card is announced only in a snapshot that shows it face up.
C23_CardAnnouncedOnce ==
  [][/\ \A c, d \in DisplayCues(last') : c.key[2] = d.key[2] => c = d
     /\ \A c \in DisplayCues(last') : c.key \notin VisibleCards(state, joined)
     /\ (last.op = "leave" /\ last'.op = "joinRoom") => DisplayCues(last') = {}
     /\ (/\ last.op \in {"hit", "double", "keypress"}
         /\ DealtCues(last) # {}
         /\ last'.op = "message")
          => \A c \in DisplayCues(last') : c.key[2] \notin NewCardsOfMe(state, state')
     /\ \A c \in DisplayCues(last') :
          c.key[1] = "dealer" => c.key \in DealerCards(state')]_vars

\* the step publishes a snapshot of phase RESULT after a snapshot of another
\* phase (or none), and the local player has a result in it
EntersResult(old, new) ==
  OptPhase(new) = "RESULT" /\ OptPhase(old) # "RESULT" /\ HasResult(Me(new))

\* C24: the side effect of entering RESULT happens exactly once per entry.
\* A step that publishes the first snapshot of phase RESULT after another
\* phase, with a result for the local player, shows the overlay with that
\* result, adds 1 to gamesPlayed and 1 to exactly one of wins, losses and
\* pushes; no other step (a further snapshot of phase RESULT included)
\* changes the counters or the result shown, or shows the overlay.
C24_ResultEffectOncePerEntry ==
  [][/\ EntersResult(state, state') =>
          /\ last'.op = "message"
          /\ showResult' /\ myResult' = Me(state').result
          /\ stats'.gamesPlayed = stats.gamesPlayed + 1
          /\ stats'.wins >= stats.wins
          /\ stats'.losses >= stats.losses
          /\ stats'.pushes >= stats.pushes
          /\ stats'.wins + stats'.losses + stats'.pushes
               = stats.wins + stats.losses + stats.pushes + 1
     /\ ~EntersResult(state, state') =>
          /\ stats' = stats /\ myResult' = myResult
          /\ showResult' => showResult]_vars

\* RESULT was entered twice (a win, then a loss), each counted once, and a
\* further snapshot of phase RESULT with another result changed nothing
C24_Witness ==
  /\ last.op = "message" /\ OptPhase(state) = "RESULT"
  /\ stats = [gamesPlayed |-> 2, wins |-> 1, losses |-> 1, pushes |-> 0]
  /\ myResult = [str |-> "LOSE"] /\ Me(state).result = [str |-> "PUSH"]
  /\ showResult

\* the step wrote a frame of the given type to the transport
WroteFrame(type) ==
  last'.wrote = 1 /\ wire' # <<>> /\ wire'[Len(wire')].text.type = type

\* C25: a double frame is written only when the connection is open, the
\* snapshot has phase PLAYER with the local player active, and the local
\* player's hand has exactly 2 cards, for the button and for the key.
C25_DoubleOnlyOnTwoCards ==
  [][WroteFrame("double") =>
       /\ ConnectionOpen
       /\ OptPhase(state) = "PLAYER" /\ IsMyTurn(state)
       /\ Me(state) # Undefined /\ Len(Me(state).cards) = 2]_vars

\* the aces of the hand that its value still counts as 11
AcesAsEleven == (hand.value - HardTotal(hand.cards)) \div 10

\* C26: the value of a hand is at most 21 or counts no ace as 11 (the value
\* is the total with each ace as 1 plus 10 for each ace counted as 11): it is
\* never a bust total that one more downgrade of an ace could have reduced.
C26_NoAceLeftInBust ==
  /\ hand.value = HardTotal(hand.cards) + 10 * AcesAsEleven
  /\ AcesAsEleven \in 0..AcesOf(hand.cards)
  /\ (hand.value <= 21 \/ AcesAsEleven = 0)

\* a bust hand with an ace was evaluated: the ace counts 1
C26_Witness ==
  /\ last.op = "deal"
  /\ hand.cards = HandOf(<<"A", "K", "K", "2">>)
  /\ hand.value = 23

\* the hand with the cards at positions i and j exchanged
Swapped(cards, i, j) ==
  [k \in DOMAIN cards |-> IF k = i THEN cards[j] ELSE IF k = j THEN cards[i] ELSE cards[k]]
\* the hand with the same ranks in suit su and with other card ids
Redealt(cards, su) ==
  [k \in DOMAIN cards |->
     [id |-> HandIds[Len(HandIds) + 1 - k], suit |-> su, rank |-> cards[k].rank]]
OtherSuits == {"H", "D", "C"}

\* C27: the value of a hand depends only on the multiset of its ranks.
\* Exchanging two neighbouring cards of the hand (these exchanges generate
\* every permutation, and every hand is evaluated), or giving the cards
\* another suit and other ids, gives the same value; and evaluating the hand again gives
\* the value it has, the hand being what it was.
C27_DependsOnRanksOnly ==
  /\ \A i \in 1..(Len(hand.cards) - 1) :
       calculateValue(Swapped(hand.cards, i, i + 1)) = hand.value
  /\ \A su \in OtherSuits : calculateValue(Redealt(hand.cards, su)) = hand.value
  /\ calculateValue(hand.cards) = hand.value

\* a hand whose value depends on an ace downgraded after a later card, with
\* the ace first: the hand with the ace last has the same value
C27_Witness ==
  /\ last.op = "deal"
  /\ hand.cards = HandOf(<<"A", "K", "5">>)
  /\ hand.value = 16
  /\ calculateValue(HandOf(<<"K", "5", "A">>)) = 16

\* C28: the connected flag is true exactly when the socket the hook holds is
\* open; a close event of a superseded or torn-down socket never leaves
\* connected false while the held socket is open.
C28_ConnectedIffHeldSocketOpen == connected <=> ConnectionOpen

\* C29: a snapshot that leaves the phase PLAYER and the active player as
\* they were (the same player's hand growing after a hit, say) does not
\* reset, pause or restart the countdown: timeLeft keeps its value and the
\* interval that was ticking is the one that ticks, with the periods it has
\* counted and the period that is due.
C29_SamePlayerSnapshotKeepsClock ==
  [][(/\ last'.op = "message"
      /\ OptPhase(state) = "PLAYER" /\ OptPhase(state') = "PLAYER"
      /\ ActiveId(state) # "" /\ ActiveId(state') = ActiveId(state))
       => UNCHANGED <<timeLeft, intervalRef, intervals, due, ticksSinceReset>>]_vars

\* Ann's hand of three cards was published on her turn while her clock, which
\* is running, had counted periods: it shows what it showed
C29_Witness ==
  /\ last.op = "message" /\ TimerMounted
  /\ OptPhase(state) = "PLAYER" /\ ActiveId(state) = "p1"
  /\ Len(Me(state).cards) = 3
  /\ ClockRunning
  /\ ticksSinceReset = 3 /\ timeLeft = Duration - 3 /\ last.was = timeLeft

\* C30: once a snapshot has been published, the published value is always a
\* GameState that a received frame of type state carried: no inbound frame
\* (a frame of type state without a state member included) makes the
\* published snapshot absent or undefined again.
C30_PublishedSnapshotStaysGameState ==
  [][(state \in GameStates) =>
       /\ state' \in GameStates
       /\ state' # state => state' = lastCarried']_vars

\* the handlers of the connection lifecycle, and those a caller invokes
LifecycleOps == {"open", "close", "error+close", "retry", "effect", "closing"}
CallerOps == {"send", "joinRoom", "leave", "hit", "double", "bet", "keypress"}

\* C31: the events of the connection lifecycle (open, close, error, the retry
\* timer, connect) never change the published snapshot and never write a
\* frame: the snapshot changes only when a frame is received, and a frame is
\* written only when a caller invokes send or joinRoom, so the last snapshot
\* stays published through a disconnect and a reconnect and nothing is sent
\* after the reopen by itself.
C31_LifecycleLeavesSnapshotAndWire ==
  /\ [][last'.op \in LifecycleOps =>
          (state' = state /\ wire' = wire /\ last'.wrote = 0)]_vars
  /\ [][state' # state => last'.op = "message"]_vars
  /\ [][(wire' # wire \/ last'.wrote > 0) => last'.op \in CallerOps]_vars

\* a snapshot was published and a frame written on the first socket; the
\* connection was lost and another socket has just opened: the snapshot is
\* published still and the frame written last is the one of the first socket
C31_Witness ==
  /\ last.op = "open" /\ mounted
  /\ wsRef # 1 /\ ConnectionOpen
  /\ state \in GameStates /\ state = lastCarried
  /\ wire # <<>> /\ wire[Len(wire)].sock = 1

====
